---- MODULE Spec2Model ----
(***************************************************************************)
(* The real-time chat transport of gary-norman/codex (package websocket):  *)
(* the one-time-password store (RetentionMap), the upgrade gateway         *)
(* (Manager.ServeWebsocket), the per-connection actor (Client.readMessages *)
(* and Client.writeMessages), the event router, the send_message handler   *)
(* and the broadcast to the participants of a chat; ConcurrentSearch       *)
(* (package handlers), the fan-out of the three sub-searches; the two      *)
(* circuit breakers (packages circuitbreaker and patterns) under           *)
(* concurrent calls of Execute; ChatHandler.CreateChat over the tables     *)
(* Chats and ChatUsers; the lock of the registry of clients; the end of    *)
(* the sweep on the cancellation of its context; and the keepalive of a    *)
(* connection, pings against the read deadline.                            *)
(*                                                                         *)
(* The clock counts units of 200 ms, the largest unit in which both the    *)
(* retention period (5 s) and the sweep's ticker (400 ms) are integers.    *)
(***************************************************************************)
EXTENDS Integers, Sequences, FiniteSets, TLC

\* ------------------------------------------------------------------ bounds
\* number of one-time passwords NewOTP issues in one run
MaxOTPs == 2
\* number of upgrade requests (and hence of connections) in one run
MaxReqs == 2
\* the clock stops here
MaxTime == 30
\* NewOTP is called no later than this instant
MaxIssueTime == 1
\* number of chat messages persisted in one run
MaxMsgs == 2
\* goroutines that call Execute of one circuit breaker
MaxCallers == 2
\* largest windowSize a sliding-window breaker is made with
MaxWindow == 4
\* largest maxFailures a breaker is made with
MaxThreshold == 2
\* cap of the failure counter of the sliding-window breaker
MaxCount == 5
\* calls of ChatHandler.CreateChat
MaxCreates == 2
\* calls of BroadcastToChatParticipants that run at the same time
MaxBroadcasters == 2

\* ------------------------------------------------------- program constants
\* NewRetentionMap(ctx, 5*time.Second): 5 s = 25 units of 200 ms
RetentionPeriod == 25
\* time.NewTicker(400 * time.Millisecond): 400 ms = 2 units of 200 ms
SweepInterval == 2

\* the users of the scenario: A = 1, B = 2, C = 3
Users == {1, 2, 3}
\* on the clock one user asks for passwords: the owner of a password plays no
\* part in its expiry
ClockUsers == {1}
\* the keys uuid.NewString hands out, in order
Keys == 1 .. MaxOTPs
\* r.URL.Query().Get("otp") of a request without the parameter
EmptyOTP == 0
\* a key no NewOTP ever returned
ForgedOTP == -1
\* the zero value OTP{}
NoOTP == [Key |-> EmptyOTP, UserID |-> 0, Created |-> 0]

AllowedOrigin == "http://localhost:8888"
Origins == {AllowedOrigin, "http://evil.example"}

\* upgrade requests; the client a request creates carries the request's number
Reqs == 1 .. MaxReqs

Unauthorized == "401 Unauthorized"
\* the reply upgrader.Upgrade wrote before returning an error
\* (ServeWebsocket itself writes nothing on that path)
UpgradeRefused == "refused by upgrader.Upgrade"
Switching == "101 Switching Protocols"

VARIABLES
    now,        \* time.Now()
    nextTick,   \* the instant ticker.C of Retention fires next
    ctxDone,    \* the context of NewRetentionMap is cancelled, Retention has returned
    rm,         \* Manager.OTPs, the RetentionMap: key -> OTP
    nextKey,    \* number of keys uuid.NewString has handed out
    consumed,   \* history: keys for which some VerifyOTP has returned true
    reqs,       \* the calls of ServeWebsocket, by request; token, late, origin and
                \* status are history: what was asked and what was answered
    Clients,    \* Manager.Clients, the registry (the keys of the map)
    userID,     \* Client.userID
    conn,       \* Client.connection: "none" (no client yet), "open", "closed"
    closes,     \* history: calls of connection.Close() on the client's socket
    deletes,    \* history: executions of delete(ws.Clients, client)
    rpc,        \* where the goroutine readMessages of the client is
    wpc,        \* where the goroutine writeMessages of the client is
    writing,    \* frames whose WriteMessage on the client's socket has not returned
    accepted,   \* history: events the client's egress channel has accepted, in order
    sock,       \* history: data frames written to the client's socket, in order
    broadcasts, \* history: the loops of BroadcastToChatParticipants, in order: the
                \* clients visited, those that took the event, those skipped
    messages,   \* the rows of table Messages
    last,       \* history: the inbound payload readMessages handled last, with what
                \* routeEvent returned for it
    ctxErr,     \* ConcurrentSearch: ctx.Err() of the request's context is not nil
    worker,     \* ConcurrentSearch: where the goroutine of each sub-search is
    resultCh,   \* ConcurrentSearch: usersCh, postsCh and channelsCh (capacity 1 each)
    errorsCh,   \* ConcurrentSearch: the searchErrors buffered in errorsCh
    errorsClosed, \* ConcurrentSearch: close(errorsCh) has run
    wg,         \* ConcurrentSearch: the counter of the WaitGroup
    main,       \* ConcurrentSearch: where the calling goroutine is
    received,   \* ConcurrentSearch: iterations of "for range 3" completed
    result,     \* ConcurrentSearch: the SearchResult and the error returned
    cb,         \* circuitbreaker.CircuitBreaker (sliding window): its fields
    callers,    \* the goroutines calling Execute of cb: where each is
    pcb,        \* patterns.CircuitBreaker: its fields
    pcallers,   \* the goroutines calling Execute of pcb: where each is
    chats,      \* the rows of table Chats of type 'buddy' (their ids)
    chatUsers,  \* the rows of table ChatUsers: <<chat id, user>>
    creates,    \* the calls of ChatHandler.CreateChat, by request
    mu,         \* the sync.RWMutex of the Manager: who holds it
    lpc,        \* where each call of addClient, removeClient and of the loop of
                \* BroadcastToChatParticipants is with respect to the lock
    todo,       \* the clients the loop of each broadcast has still to visit
    ctxCancel,  \* the cancel function of the context of NewRetentionMap was called
    clock,      \* keepalive of one client: time since its two loops started
    readDeadline, \* the read deadline of its connection, -1 while not set
    ticker,     \* the next tick of the ticker of writeMessages, -1 while not made
    pinged,     \* a ping was written and no pong has been received since
    ended       \* how its readMessages ended: "no", "deadline" or "error"

storeVars == <<now, nextTick, ctxDone, rm, nextKey, consumed>>
actorVars == <<Clients, userID, conn, closes, deletes, rpc, wpc, writing, accepted, sock>>
chatVars == <<broadcasts, messages>>
searchVars == <<ctxErr, worker, resultCh, errorsCh, errorsClosed, wg, main, received, result>>
breakerVars == <<cb, callers, pcb, pcallers>>
createVars == <<chats, chatUsers, creates>>
lockVars == <<mu, lpc, todo>>
sweepVars == <<ctxCancel>>
pingVars == <<clock, readDeadline, ticker, pinged, ended>>
auxVars == <<breakerVars, createVars, lockVars, sweepVars, pingVars>>
webVars == <<storeVars, reqs, actorVars, chatVars, last, lockVars, sweepVars, pingVars>>
vars == <<storeVars, reqs, actorVars, chatVars, last, searchVars, auxVars>>

\* ---------------------------------------------------------- Go's map
\* The RetentionMap is a plain map shared by the goroutines of NewOTP,
\* VerifyOTP and Retention without a lock: each map operation is one step, and
\* the goroutines interleave between the steps.
\* delete(m, k)
Delete(m, k) == [x \in DOMAIN m \ {k} |-> m[x]]

\* m[k] = v
Store(m, k, v) == [x \in DOMAIN m \cup {k} |-> IF x = k THEN v ELSE m[x]]

\* ------------------------------------------------- the credential registry
\* NewOTP: a fresh key, stamped with the current time, stored
NewOTP(user) ==
    /\ nextKey < MaxOTPs
    /\ now <= MaxIssueTime
    /\ LET o == [Key |-> nextKey + 1, UserID |-> user, Created |-> now]
       IN  rm' = Store(rm, o.Key, o)
    /\ nextKey' = nextKey + 1
    /\ UNCHANGED <<now, nextTick, ctxDone, consumed, reqs, actorVars, chatVars>>
    /\ UNCHANGED <<last, searchVars, auxVars>>

\* VerifyOTP, first statement: otpObj, ok := rm[otp]
VerifyOTPLookup(m, otp) ==
    IF otp \in DOMAIN m THEN [otpObj |-> m[otp], ok |-> TRUE]
                        ELSE [otpObj |-> NoOTP, ok |-> FALSE]

VerifyOTPKeep(m, otp) == m

\* VerifyOTP, second statement: delete(rm, otp)
VerifyOTPRemove(m, otp) == Delete(m, otp)

ExpiredSwapped(otp, t) == t + RetentionPeriod < otp.Created

\* otp.Created.Add(retentionPeriod).Before(time.Now())
Expired(otp, t) == otp.Created + RetentionPeriod < t

\* Retention, case <-ticker.C: delete every expired OTP
Sweep(m, t) == [k \in {x \in DOMAIN m : ~Expired(m[x], t)} |-> m[k]]

\* one tick of Retention's ticker is received and handled
RetentionTick ==
    /\ ~ctxDone
    /\ now = nextTick
    /\ rm' = Sweep(rm, now)
    /\ nextTick' = nextTick + SweepInterval
    /\ UNCHANGED <<now, ctxDone, nextKey, consumed, reqs, actorVars, chatVars>>
    /\ UNCHANGED <<last, searchVars, auxVars>>

\* Retention, case <-ctx.Done(): return
RetentionCancel ==
    /\ ~ctxDone
    /\ ctxDone' = TRUE
    /\ UNCHANGED <<now, nextTick, rm, nextKey, consumed, reqs, actorVars, chatVars>>
    /\ UNCHANGED <<last, searchVars, auxVars>>

\* the clock advances; a running Retention handles its tick at the instant it
\* fires, and the two map operations of a VerifyOTP call take no time
Advance ==
    /\ now < MaxTime
    /\ \A r \in Reqs : reqs[r].pc # "delete"
    /\ ctxDone \/ now < nextTick
    /\ now' = now + 1
    /\ UNCHANGED <<nextTick, ctxDone, rm, nextKey, consumed, reqs, actorVars, chatVars>>
    /\ UNCHANGED <<last, searchVars, auxVars>>

\* ------------------------------------------------------ the upgrade gateway
IdleReq ==
    [pc |-> "idle", otpObj |-> NoOTP, token |-> "", late |-> FALSE, origin |-> "",
     status |-> ""]

\* a finished call: what it was asked (history) and what it answered
DoneReq(token, late, origin, status) ==
    [pc |-> "done", otpObj |-> NoOTP, token |-> token, late |-> late, origin |-> origin,
     status |-> status]

ValidAlways(v) == TRUE

\* the second result of VerifyOTP, tested by "if !valid"
Valid(v) == v.ok

checkOriginAny(origin) == TRUE

\* checkOrigin: the switch on the Origin header
checkOrigin(origin) == origin = AllowedOrigin

\* ServeWebsocket up to the map lookup of VerifyOTP: the otp parameter is read,
\* a missing one is answered 401; VerifyOTP looks the key up, a key that is not
\* in the map is answered 401. origin is the request's Origin header
ServeBegin(r, otp, origin) ==
    /\ reqs[r].pc = "idle"
    /\ otp \in {EmptyOTP, ForgedOTP} \cup (1 .. nextKey)
    /\ IF otp = EmptyOTP
       THEN reqs' = [reqs EXCEPT ![r] = DoneReq("missing", FALSE, origin, Unauthorized)]
       ELSE LET v == VerifyOTPLookup(rm, otp)
                token == IF v.ok THEN "valid" ELSE "invalid"
                late == otp \in consumed
            IN  reqs' = [reqs EXCEPT ![r] =
                    IF Valid(v)
                    THEN [pc |-> "delete", otpObj |-> v.otpObj, token |-> token,
                          late |-> late, origin |-> origin, status |-> ""]
                    ELSE DoneReq(token, late, origin, Unauthorized)]
    /\ UNCHANGED <<storeVars, actorVars, chatVars>>
    /\ UNCHANGED <<last, searchVars, auxVars>>

\* VerifyOTP deletes the key and returns the OTP it found
ServeDelete(r) ==
    /\ reqs[r].pc = "delete"
    /\ rm' = VerifyOTPRemove(rm, reqs[r].otpObj.Key)
    /\ consumed' = IF reqs[r].token = "valid" THEN consumed \cup {reqs[r].otpObj.Key}
                                              ELSE consumed
    /\ reqs' = [reqs EXCEPT ![r].pc = "upgrade"]
    /\ UNCHANGED <<now, nextTick, ctxDone, nextKey, actorVars, chatVars>>
    /\ UNCHANGED <<last, searchVars, auxVars>>

addClientNever(clients, c) == clients

\* addClient, under ws.Lock(): ws.Clients[client] = true
addClient(clients, c) == clients \cup {c}

ClientUserFirst(otpObj) == 1

\* NewClient(conn, ws, otpObj.UserID): the user the client is bound to
ClientUser(otpObj) == otpObj.UserID

\* upgrader.Upgrade, and after it NewClient, addClient and the two goroutines.
\* Upgrade refuses a request whose origin checkOrigin rejects, and one whose
\* handshake fails (hs = FALSE); ServeWebsocket then only prints the error.
\* readMessages has no effect before its first ReadMessage, so it starts there
ServeUpgrade(r, hs) ==
    /\ reqs[r].pc = "upgrade"
    /\ IF checkOrigin(reqs[r].origin) /\ hs
       THEN /\ reqs' = [reqs EXCEPT ![r] =
                   DoneReq(reqs[r].token, reqs[r].late, reqs[r].origin, Switching)]
            /\ userID' = [userID EXCEPT ![r] = ClientUser(reqs[r].otpObj)]
            /\ conn' = [conn EXCEPT ![r] = "open"]
            /\ Clients' = addClient(Clients, r)
            /\ rpc' = [rpc EXCEPT ![r] = "read"]
            /\ wpc' = [wpc EXCEPT ![r] = "start"]
            /\ UNCHANGED <<closes, deletes, writing, accepted, sock>>
       ELSE /\ reqs' = [reqs EXCEPT ![r] =
                   DoneReq(reqs[r].token, reqs[r].late, reqs[r].origin, UpgradeRefused)]
            /\ UNCHANGED actorVars
    /\ UNCHANGED <<storeVars, chatVars>>
    /\ UNCHANGED <<last, searchVars, auxVars>>

\* ------------------------------------------------------------- storage
\* "c1" and "c0" stand for the UUIDs of two chats; "not-a-uuid" is a chat_id
\* uuid.Parse rejects
ChatIDs == {"c1", "c0"}

\* GetChatParticipantIDs: the rows of ChatUsers for the chat, in row order
GetChatParticipantIDs(chatID) == IF chatID = "c1" THEN <<1, 2>> ELSE <<>>

IsUserInChatAny(chatID, user) == TRUE

\* IsUserInChat: EXISTS(SELECT 1 FROM ChatUsers WHERE ChatID = ? AND UserID = ?)
IsUserInChat(chatID, user) ==
    \E i \in DOMAIN GetChatParticipantIDs(chatID) : GetChatParticipantIDs(chatID)[i] = user

\* the storage call that fails during one run of the handler, if any
StorageFailures ==
    {"none", "IsUserInChat", "CreateChatMessage", "GetUserByID", "GetChatParticipantIDs"}

\* ------------------------------------------------------------- frames
Frame(type, chat, id, content, sender) ==
    [type |-> type, chat_id |-> chat, message_id |-> id, content |-> content,
     sender |-> sender]

\* websocket.PingMessage
Ping == Frame("ping", "", 0, "", 0)

\* what ReadMessage can return without an error: a payload that is not the JSON
\* of an Event, an Event of a type without handler, a send_message whose
\* payload is not the JSON of a SendMessageEvent, and send_message events
Inbound ==
    {[json |-> FALSE, type |-> "", payloadOK |-> FALSE, chat_id |-> "", message |-> ""],
     [json |-> TRUE, type |-> "typing", payloadOK |-> TRUE, chat_id |-> "", message |-> ""],
     [json |-> TRUE, type |-> "send_message", payloadOK |-> FALSE, chat_id |-> "",
      message |-> ""]}
    \cup
    {[json |-> TRUE, type |-> "send_message", payloadOK |-> TRUE, chat_id |-> ch,
      message |-> m] : ch \in ChatIDs \cup {"not-a-uuid"}, m \in {"", "hi"}}

AliveAlways(c) == TRUE

\* a read or a write on the client's socket can succeed: no connection.Close()
\* has run (after it gorilla's ReadMessage and WriteMessage return an error)
Alive(c) == conn[c] = "open"

\* ------------------------------------------------------------ the registry
removeClientAlways(c) == TRUE

\* removeClient: if _, ok := ws.Clients[client]; ok
removeClientFound(c) == c \in Clients

\* removeClient, under ws.Lock(): close the socket and delete the client, if it
\* is still in the map
removeClient(c) ==
    IF removeClientFound(c)
    THEN /\ conn' = [conn EXCEPT ![c] = "closed"]
         /\ closes' = [closes EXCEPT ![c] = @ + 1]
         /\ Clients' = Clients \ {c}
         /\ deletes' = [deletes EXCEPT ![c] = @ + 1]
    ELSE UNCHANGED <<conn, closes, Clients, deletes>>

\* ------------------------------------------------------------- broadcast
IsParticipantAny(user, participantIDs) == TRUE

\* the inner loop of BroadcastToChatParticipants: client.userID == participantID
\* for some element of the list
IsParticipant(user, participantIDs) ==
    \E i \in DOMAIN participantIDs : participantIDs[i] = user

EgressReadyAlways(c) == TRUE

\* "case client.egress <- event" can proceed: egress is make(chan Event), without
\* buffer, so the send needs writeMessages of the client blocked in its select
EgressReady(c) == wpc[c] = "select"

OffersNoBreak(user, participantIDs) ==
    Cardinality({i \in DOMAIN participantIDs : participantIDs[i] = user})

\* the inner loop: how often the select on client.egress runs for one client;
\* the break after the first matching participantID ends the inner loop
Offers(user, participantIDs) == IF IsParticipant(user, participantIDs) THEN 1 ELSE 0

\* the registered clients the outer loop finds to belong to a participant
Targets(participantIDs) == {c \in Clients : Offers(userID[c], participantIDs) > 0}

SentUntilFull(targets) == IF \A c \in targets : EgressReady(c) THEN targets ELSE {}

\* "case client.egress <- event": the clients that take the event; the loop
\* goes on to the next client whatever the select did
Sent(targets) == {c \in targets : EgressReady(c)}

\* "default": the clients skipped with the warning "egress channel full"
Skipped(targets) == {c \in targets : ~EgressReady(c)}

BroadcastErrOnSkip(skipped) == IF skipped = {} THEN "" ELSE "egress channel full"

\* what BroadcastToChatParticipants returns after its loop: "return nil"
BroadcastErr(skipped) == ""

\* n copies of e
Repeat(e, n) == [i \in 1 .. n |-> e]

\* BroadcastToChatParticipants after the participants are loaded: under
\* ws.RLock(), every registered client of a participant is offered the event;
\* a client that cannot take it at once is skipped with a warning
Broadcast(participantIDs, event) ==
    LET targets == Targets(participantIDs)
        got == Sent(targets)
    IN  /\ wpc' = [c \in Reqs |-> IF c \in got THEN "write" ELSE wpc[c]]
        /\ writing' = [c \in Reqs |-> IF c \in got THEN writing[c] \cup {event}
                                                   ELSE writing[c]]
        /\ accepted' = [c \in Reqs |->
               IF c \in got
               THEN accepted[c] \o Repeat(event, Offers(userID[c], participantIDs))
               ELSE accepted[c]]
        /\ broadcasts' = Append(broadcasts,
               [event |-> event, participants |-> participantIDs, visited |-> Clients,
                sent |-> got, skipped |-> Skipped(targets),
                err |-> BroadcastErr(Skipped(targets))])

\* ------------------------------------------------- the send_message handler
\* SendMessage up to the broadcast, as the list of storage calls it makes and
\* the error it returns ("" for none so far); fail names the storage call that
\* returns an error
EmptyMessageNever(in) == FALSE

\* if sendMessageEvent.Message == ""
EmptyMessage(in) == in.message = ""

StepFailsNever(fail, call) == FALSE

\* "if err != nil" after a storage call: the call named by fail returned an error
StepFails(fail, call) == fail = call

SendMessageSteps(in, user, fail) ==
    IF ~in.payloadOK
    THEN [err |-> "failed to unmarshal send message event", calls |-> <<>>]
    ELSE IF EmptyMessage(in)
    THEN [err |-> "message content cannot be empty", calls |-> <<>>]
    ELSE IF in.chat_id \notin ChatIDs
    THEN [err |-> "invalid chat ID", calls |-> <<>>]
    ELSE IF StepFails(fail, "IsUserInChat")
    THEN [err |-> "failed to verify chat membership", calls |-> <<"IsUserInChat">>]
    ELSE IF ~IsUserInChat(in.chat_id, user)
    THEN [err |-> "user is not a member of this chat", calls |-> <<"IsUserInChat">>]
    ELSE IF StepFails(fail, "CreateChatMessage")
    THEN [err |-> "failed to save message",
          calls |-> <<"IsUserInChat", "CreateChatMessage">>]
    ELSE IF StepFails(fail, "GetUserByID")
    THEN [err |-> "failed to get sender info",
          calls |-> <<"IsUserInChat", "CreateChatMessage", "GetUserByID">>]
    ELSE IF StepFails(fail, "GetChatParticipantIDs")
    THEN [err |-> "failed to broadcast message",
          calls |-> <<"IsUserInChat", "CreateChatMessage", "GetUserByID",
                      "GetChatParticipantIDs">>]
    ELSE [err |-> "",
          calls |-> <<"IsUserInChat", "CreateChatMessage", "GetUserByID",
                      "GetChatParticipantIDs">>]

\* CreateChatMessage ran and returned no error
Persisted(steps) ==
    /\ Len(steps.calls) >= 2
    /\ steps.err # "failed to save message"

\* what SendMessage returns once BroadcastToChatParticipants has returned
SendMessageErr(steps, skipped) ==
    IF steps.err = "" /\ BroadcastErr(skipped) # ""
    THEN "failed to broadcast message"
    ELSE steps.err

\* setupEventHandlers: the event types with a handler
Handlers == {"send_message"}

routeEventSilent(in, user, fail) ==
    IF in.type \in Handlers
    THEN [handler |-> in.type, err |-> SendMessageSteps(in, user, fail).err,
          calls |-> SendMessageSteps(in, user, fail).calls]
    ELSE [handler |-> "", err |-> "", calls |-> <<>>]

\* routeEvent: the handler of the event's type is called and its error
\* returned, or "event type not found"; handler names the handler called
routeEvent(in, user, fail) ==
    IF in.type \in Handlers
    THEN [handler |-> in.type, err |-> SendMessageSteps(in, user, fail).err,
          calls |-> SendMessageSteps(in, user, fail).calls]
    ELSE [handler |-> "", err |-> "event type not found", calls |-> <<>>]

\* ------------------------------------------------------------ readMessages
\* ReadMessage returns an error (peer gone, deadline passed, socket closed), or
\* SetReadDeadline did before the loop: the goroutine ends and its deferred
\* removeClient runs
ReadError(c) ==
    /\ rpc[c] = "read"
    /\ removeClient(c)
    /\ rpc' = [rpc EXCEPT ![c] = "done"]
    /\ UNCHANGED <<storeVars, reqs, chatVars, userID, wpc, writing, accepted, sock>>
    /\ UNCHANGED <<last, searchVars, auxVars>>

\* the storage calls that can fail while the payload is handled: none if the
\* handler returns before its first storage call
Fails(c, in) ==
    IF in.json /\ Len(routeEvent(in, userID[c], "none").calls) > 0
    THEN StorageFailures ELSE {"none"}

\* what handling one payload comes to: whether routeEvent was called, the
\* handler it called, the storage calls made and the error logged
Outcome(c, in, fail) ==
    IF ~in.json
    THEN [routed |-> FALSE, handler |-> "", calls |-> <<>>,
          err |-> "Error unmarshalling message"]
    ELSE LET steps == routeEvent(in, userID[c], fail)
         IN  [routed |-> TRUE, handler |-> steps.handler, calls |-> steps.calls,
              err |-> SendMessageErr(steps,
                          Skipped(Targets(GetChatParticipantIDs(in.chat_id))))]

LoopAfterBreak(jsonOK, err) == IF jsonOK /\ err = "" THEN "read" ELSE "done"

\* the loop of readMessages after a payload is handled: "continue" on an
\* unmarshal error and on a routeEvent error, the next iteration otherwise
LoopAfter(jsonOK, err) == "read"

\* ReadMessage returns a payload: it is unmarshalled and routed; the handler
\* runs to its end in the reader's goroutine, and the loop goes on whatever it
\* returned
Route(c, in, fail) ==
    /\ rpc[c] = "read"
    /\ Alive(c)
    /\ IF ~in.json
       THEN UNCHANGED <<messages, broadcasts, wpc, writing, accepted>>
       ELSE LET steps == routeEvent(in, userID[c], fail)
                id == Len(messages) + 1
            IN  /\ IF Persisted(steps)
                   THEN /\ Len(messages) < MaxMsgs
                        /\ messages' = Append(messages,
                               [id |-> id, chat_id |-> in.chat_id, sender |-> userID[c],
                                content |-> in.message])
                   ELSE UNCHANGED messages
                /\ IF steps.handler # "" /\ steps.err = ""
                   THEN Broadcast(GetChatParticipantIDs(in.chat_id),
                                  Frame("new_message", in.chat_id, id, in.message,
                                        userID[c]))
                   ELSE UNCHANGED <<broadcasts, wpc, writing, accepted>>
    /\ rpc' = [rpc EXCEPT ![c] = LoopAfter(in.json, Outcome(c, in, fail).err)]
    /\ UNCHANGED <<storeVars, reqs, Clients, userID, conn, closes, deletes, sock,
                   searchVars, auxVars>>

\* one iteration of the loop of readMessages
ReadMessage(c, in) ==
    \E fail \in Fails(c, in) : Route(c, in, fail) /\ UNCHANGED last

\* the same iteration, with the history of what was handled
ReadRouted(c, in) ==
    \E fail \in Fails(c, in) :
        /\ Route(c, in, fail)
        /\ last' = [c |-> c, in |-> in, fail |-> fail, out |-> Outcome(c, in, fail)]

\* ----------------------------------------------------------- writeMessages
\* time.NewTicker(pingInterval), then the select
WriterStart(c) ==
    /\ wpc[c] = "start"
    /\ wpc' = [wpc EXCEPT ![c] = "select"]
    /\ UNCHANGED <<storeVars, reqs, chatVars, Clients, userID, conn, closes, deletes,
                   rpc, writing, accepted, sock>>
    /\ UNCHANGED <<last, searchVars, auxVars>>

\* json.Marshal and WriteMessage(TextMessage) of the received event return; a
\* write error (ok = FALSE, the only outcome on a closed socket) is logged and
\* the loop goes on
WriteDone(c, f, ok) ==
    /\ wpc[c] = "write"
    /\ f \in writing[c]
    /\ f.type = "new_message"
    /\ ok => Alive(c)
    /\ writing' = [writing EXCEPT ![c] = @ \ {f}]
    /\ sock' = [sock EXCEPT ![c] = IF ok THEN Append(@, f) ELSE @]
    /\ wpc' = [wpc EXCEPT ![c] = "select"]
    /\ UNCHANGED <<storeVars, reqs, chatVars, Clients, userID, conn, closes, deletes,
                   rpc, accepted>>
    /\ UNCHANGED <<last, searchVars, auxVars>>

\* case <-ticker.C: WriteMessage(PingMessage) is called
PingBegin(c) ==
    /\ wpc[c] = "select"
    /\ wpc' = [wpc EXCEPT ![c] = "ping"]
    /\ writing' = [writing EXCEPT ![c] = @ \cup {Ping}]
    /\ UNCHANGED <<storeVars, reqs, chatVars, Clients, userID, conn, closes, deletes,
                   rpc, accepted, sock>>
    /\ UNCHANGED <<last, searchVars, auxVars>>

\* WriteMessage(PingMessage) returns without error: back to the select
PingDone(c) ==
    /\ wpc[c] = "ping"
    /\ Ping \in writing[c]
    /\ Alive(c)
    /\ writing' = [writing EXCEPT ![c] = @ \ {Ping}]
    /\ wpc' = [wpc EXCEPT ![c] = "select"]
    /\ UNCHANGED <<storeVars, reqs, chatVars, Clients, userID, conn, closes, deletes,
                   rpc, accepted, sock>>
    /\ UNCHANGED <<last, searchVars, auxVars>>

AfterPingErrorRetry == "select"

\* "return // Stop the ping routine on any error": where writeMessages is
\* after a failed ping write
AfterPingError == "done"

\* WriteMessage(PingMessage) returns an error (always so on a closed socket):
\* the goroutine ends and its deferred removeClient runs
PingError(c) ==
    /\ wpc[c] = "ping"
    /\ Ping \in writing[c]
    /\ writing' = [writing EXCEPT ![c] = @ \ {Ping}]
    /\ removeClient(c)
    /\ wpc' = [wpc EXCEPT ![c] = AfterPingError]
    /\ UNCHANGED <<storeVars, reqs, chatVars, userID, rpc, accepted, sock>>
    /\ UNCHANGED <<last, searchVars, auxVars>>

\* ------------------------------------------- BroadcastToChatParticipants
\* the participant lists GetChatParticipantIDs hands to the loop: none, two
\* users, and a list that names one user twice (the loop does not rely on the
\* rows being distinct)
ParticipantLists == {<<>>, <<1, 2>>, <<1, 1>>}

\* the event of a call that does not come from SendMessage
Notice == Frame("new_message", "c1", 0, "notice", 0)

\* a call of BroadcastToChatParticipants on its own; ok = FALSE:
\* GetChatParticipantIDs fails and the error is returned before the loop
BroadcastToChatParticipants(participantIDs, ok) ==
    /\ Len(broadcasts) < MaxMsgs
    /\ IF ok
       THEN Broadcast(participantIDs, Notice)
       ELSE UNCHANGED <<broadcasts, wpc, writing, accepted>>
    /\ UNCHANGED <<storeVars, reqs, Clients, userID, conn, closes, deletes, rpc, sock,
                   messages, last, searchVars, auxVars>>

\* ------------------------------------------------------- ConcurrentSearch
\* the three sub-searches
Sources == {"users", "posts", "channels"}

\* "for range 3": the iterations of the collecting loop
Iterations == 3

\* the call: the channels are made, the three workers and the goroutine that
\* closes errorsCh are started; cancelled: the context is done already
ConcurrentSearch(cancelled) ==
    /\ main = "idle"
    /\ main' = "collect"
    /\ ctxErr' = cancelled
    /\ worker' = [s \in Sources |-> "check"]
    /\ wg' = Cardinality(Sources)
    /\ UNCHANGED <<resultCh, errorsCh, errorsClosed, received, result>>
    /\ UNCHANGED <<webVars, auxVars>>

\* the request's context is cancelled while the search runs
CancelContext ==
    /\ main \notin {"idle", "returned"}
    /\ ~ctxErr
    /\ ctxErr' = TRUE
    /\ UNCHANGED <<worker, resultCh, errorsCh, errorsClosed, wg, main, received, result>>
    /\ UNCHANGED <<webVars, auxVars>>

\* a worker's select on ctx.Done(): cancelled, it sends a searchError, returns
\* and its deferred wg.Done() runs
WorkerCheck(s) ==
    /\ worker[s] = "check"
    /\ IF ctxErr
       THEN /\ errorsCh' = Append(errorsCh, s)
            /\ worker' = [worker EXCEPT ![s] = "done"]
            /\ wg' = wg - 1
       ELSE /\ worker' = [worker EXCEPT ![s] = "execute"]
            /\ UNCHANGED <<errorsCh, wg>>
    /\ UNCHANGED <<ctxErr, resultCh, errorsClosed, main, received, result>>
    /\ UNCHANGED <<webVars, auxVars>>

\* app.DBCircuit.Execute returns: without error the rows go to the worker's
\* result channel, with one (of the query or of the breaker) a searchError
\* goes to errorsCh; then wg.Done()
WorkerExecute(s, ok) ==
    /\ worker[s] = "execute"
    /\ IF ok
       THEN /\ resultCh' = [resultCh EXCEPT ![s] = TRUE]
            /\ UNCHANGED errorsCh
       ELSE /\ errorsCh' = Append(errorsCh, s)
            /\ UNCHANGED resultCh
    /\ worker' = [worker EXCEPT ![s] = "done"]
    /\ wg' = wg - 1
    /\ UNCHANGED <<ctxErr, errorsClosed, main, received, result>>
    /\ UNCHANGED <<webVars, auxVars>>

\* wg.Wait() returns and close(errorsCh) runs
CloseErrors ==
    /\ main # "idle"
    /\ wg = 0
    /\ ~errorsClosed
    /\ errorsClosed' = TRUE
    /\ UNCHANGED <<ctxErr, worker, resultCh, errorsCh, wg, main, received, result>>
    /\ UNCHANGED <<webVars, auxVars>>

\* one iteration of "for range 3": the select takes the value of a result
\* channel that holds one; it has no default and no case for ctx.Done()
Receive(s) ==
    /\ main = "collect"
    /\ resultCh[s]
    /\ resultCh' = [resultCh EXCEPT ![s] = FALSE]
    /\ result' = [result EXCEPT !.got = @ \cup {s}]
    /\ received' = received + 1
    /\ main' = IF received + 1 = Iterations THEN "errors" ELSE "collect"
    /\ UNCHANGED <<ctxErr, worker, errorsCh, errorsClosed, wg>>
    /\ UNCHANGED <<webVars, auxVars>>

\* "for err := range errorsCh": a buffered error is appended to result.Errors;
\* once the channel is closed and empty the loop ends and the function returns
\* (err: the number in "search completed with %d errors", 0 for nil)
RangeErrors ==
    /\ main = "errors"
    /\ errorsCh # <<>> \/ errorsClosed
    /\ IF errorsCh # <<>>
       THEN /\ result' = [result EXCEPT !.Errors = Append(@, Head(errorsCh))]
            /\ errorsCh' = Tail(errorsCh)
            /\ UNCHANGED main
       ELSE /\ result' = [result EXCEPT !.err = Len(result.Errors)]
            /\ main' = "returned"
            /\ UNCHANGED errorsCh
    /\ UNCHANGED <<ctxErr, worker, resultCh, errorsClosed, wg, received>>
    /\ UNCHANGED <<webVars, auxVars>>

\* ------------------------------------- circuitbreaker.CircuitBreaker
Callers == 1 .. MaxCallers

\* before NewCircuitBreaker; elapsed stands for
\* time.Since(cb.lastFailureTime) > cb.resetTimeout, true of the zero time
NoBreaker ==
    [state |-> "none", maxFailures |-> 0, windowSize |-> 0, failures |-> 0,
     halfOpenTestDone |-> FALSE, recentRequests |-> <<>>, requestIndex |-> 0,
     elapsed |-> TRUE]

\* a goroutine outside Execute; probe (history) marks the call admitted by the
\* latest move from Open to HalfOpen, until its result is recorded
IdleCall == [pc |-> "idle", probe |-> FALSE]

NewCircuitBreaker(maxFailures, windowSize) ==
    /\ cb.state = "none"
    /\ cb' = [NoBreaker EXCEPT !.state = "Closed", !.maxFailures = maxFailures,
                               !.windowSize = windowSize]
    /\ UNCHANGED <<callers, pcb, pcallers, createVars, webVars, searchVars>>

TimedOutAlways(b) == TRUE

\* time.Since(lastFailureTime) > resetTimeout
TimedOut(b) == b.elapsed

\* the reset timeout passes while the breaker is Open
ResetTimeoutPasses ==
    /\ cb.state = "Open"
    /\ ~cb.elapsed
    /\ cb' = [cb EXCEPT !.elapsed = TRUE]
    /\ UNCHANGED <<callers, pcb, pcallers, createVars, webVars, searchVars>>

\* canExecute under cb.mu: whether the request may proceed, and the breaker after
canExecuteOf(b) ==
    CASE b.state = "Closed" -> [ok |-> TRUE, b |-> b]
      [] b.state = "Open" ->
            IF TimedOut(b)
            THEN [ok |-> TRUE,
                  b |-> [b EXCEPT !.state = "HalfOpen", !.halfOpenTestDone = FALSE]]
            ELSE [ok |-> FALSE, b |-> b]
      [] b.state = "HalfOpen" ->
            IF ~b.halfOpenTestDone
            THEN [ok |-> TRUE, b |-> [b EXCEPT !.halfOpenTestDone = TRUE]]
            ELSE [ok |-> FALSE, b |-> b]
      [] OTHER -> [ok |-> FALSE, b |-> b]

\* Execute up to the call of fn: canExecute, then fn is started or
\* ErrCircuitOpen returned
canExecute(g) ==
    /\ cb.state # "none"
    /\ callers[g].pc \in {"idle", "rejected"}
    /\ cb' = canExecuteOf(cb).b
    /\ callers' =
          IF canExecuteOf(cb).ok
          THEN [h \in Callers |->
                   IF h = g THEN [pc |-> "fn", probe |-> cb.state = "Open"]
                   ELSE IF cb.state = "Open" THEN [callers[h] EXCEPT !.probe = FALSE]
                   ELSE callers[h]]
          ELSE [callers EXCEPT ![g] = [pc |-> "rejected", probe |-> FALSE]]
    /\ UNCHANGED <<pcb, pcallers, createVars, webVars, searchVars>>

\* the failures among the entries of the window
FailureCount(w) == Cardinality({i \in DOMAIN w : ~w[i]})

\* recordResult, "Add to sliding window": append, or overwrite the oldest entry
Window(b, success) ==
    IF Len(b.recentRequests) < b.windowSize
    THEN [recentRequests |-> Append(b.recentRequests, success),
          requestIndex |-> b.requestIndex]
    ELSE [recentRequests |-> [b.recentRequests EXCEPT ![b.requestIndex + 1] = success],
          requestIndex |-> (b.requestIndex + 1) % b.windowSize]

OverHalfOrHalf(failureCount, n) == 2 * failureCount >= n

\* float64(failureCount) / float64(n) > 0.5
OverHalf(failureCount, n) == 2 * failureCount > n

\* recordResult under cb.mu
recordResultOf(b, success) ==
    LET w == Window(b, success)
        b1 == [b EXCEPT !.recentRequests = w.recentRequests,
                        !.requestIndex = w.requestIndex]
        b2 == IF success THEN b1 ELSE [b1 EXCEPT !.failures = @ + 1, !.elapsed = FALSE]
    IN  IF success /\ b.state = "HalfOpen"
        THEN [b1 EXCEPT !.state = "Closed", !.failures = 0, !.recentRequests = <<>>,
                        !.requestIndex = 0]
        ELSE IF /\ Len(w.recentRequests) >= b.windowSize
                /\ OverHalf(FailureCount(w.recentRequests), Len(w.recentRequests))
        THEN [b2 EXCEPT !.state = "Open", !.elapsed = FALSE]
        ELSE b2

\* fn returns and Execute records its result
recordResult(g, success) ==
    /\ callers[g].pc = "fn"
    /\ ~success => cb.failures < MaxCount
    /\ cb' = recordResultOf(cb, success)
    /\ callers' = [callers EXCEPT ![g] = IdleCall]
    /\ UNCHANGED <<pcb, pcallers, createVars, webVars, searchVars>>

\* ------------------------------------------- patterns.CircuitBreaker
\* before patterns.NewCircuitBreaker; streak (history) counts the failed calls
\* recorded in a row while the breaker is Closed
NoSimpleBreaker ==
    [state |-> "none", maxFailures |-> 0, failures |-> 0, elapsed |-> TRUE,
     streak |-> 0]

NewSimpleBreaker(maxFailures) ==
    /\ pcb.state = "none"
    /\ pcb' = [NoSimpleBreaker EXCEPT !.state = "Closed", !.maxFailures = maxFailures]
    /\ UNCHANGED <<cb, callers, pcallers, createVars, webVars, searchVars>>

\* the timeout passes while the breaker is Open
TimeoutPasses ==
    /\ pcb.state = "Open"
    /\ ~pcb.elapsed
    /\ pcb' = [pcb EXCEPT !.elapsed = TRUE]
    /\ UNCHANGED <<cb, callers, pcallers, createVars, webVars, searchVars>>

\* beforeRequest under cb.mu: whether the request may proceed, and the breaker after
beforeRequestOf(b) ==
    CASE b.state = "Open" ->
            IF TimedOut(b)
            THEN [ok |-> TRUE, b |-> [b EXCEPT !.state = "HalfOpen", !.failures = 0]]
            ELSE [ok |-> FALSE, b |-> b]
      [] OTHER -> [ok |-> TRUE, b |-> b]

\* Execute up to the call of fn
beforeRequest(g) ==
    /\ pcb.state # "none"
    /\ pcallers[g].pc \in {"idle", "rejected"}
    /\ pcb' = beforeRequestOf(pcb).b
    /\ pcallers' =
          IF beforeRequestOf(pcb).ok
          THEN [h \in Callers |->
                   IF h = g THEN [pc |-> "fn", probe |-> pcb.state = "Open"]
                   ELSE IF pcb.state = "Open" THEN [pcallers[h] EXCEPT !.probe = FALSE]
                   ELSE pcallers[h]]
          ELSE [pcallers EXCEPT ![g] = [pc |-> "rejected", probe |-> FALSE]]
    /\ UNCHANGED <<cb, callers, createVars, webVars, searchVars>>

TrippedPast(failures, maxFailures) == failures > maxFailures

\* cb.failures >= cb.maxFailures
Tripped(failures, maxFailures) == failures >= maxFailures

\* afterRequest under cb.mu
afterRequestOf(b, success) ==
    IF ~success
    THEN [b EXCEPT !.failures = @ + 1,
                   !.elapsed = FALSE,
                   !.streak = IF b.state = "Closed" THEN @ + 1 ELSE @,
                   !.state = IF b.state = "HalfOpen" THEN "Open"
                             ELSE IF Tripped(b.failures + 1, b.maxFailures) THEN "Open"
                             ELSE @]
    ELSE [b EXCEPT !.state = IF @ = "HalfOpen" THEN "Closed" ELSE @,
                   !.failures = 0,
                   !.streak = 0]

\* fn returns and Execute records its result
afterRequest(g, success) ==
    /\ pcallers[g].pc = "fn"
    /\ pcb' = afterRequestOf(pcb, success)
    /\ pcallers' = [pcallers EXCEPT ![g] = IdleCall]
    /\ UNCHANGED <<cb, callers, createVars, webVars, searchVars>>

\* ------------------------------------------- ChatHandler.CreateChat
CreateReqs == 1 .. MaxCreates

IdleCreate ==
    [pc |-> "idle", user |-> 0, buddy |-> 0, chat |-> 0, status |-> 0,
     exists |-> FALSE]

\* the rows that the query of GetBuddyChatID selects: the buddy chats that
\* both users are attached to
BuddyChats(user, buddy) ==
    {c \in chats : <<c, user>> \in chatUsers /\ <<c, buddy>> \in chatUsers}

\* CreateChat of the handler up to its lookup: the request of user for buddy is
\* decoded and GetBuddyChatID queried; a hit answers 200, a miss or a failed
\* query goes on to create
GetBuddyChatID(r, user, buddy, ok) ==
    /\ creates[r].pc = "idle"
    /\ user # buddy
    /\ IF ok /\ BuddyChats(user, buddy) # {}
       THEN \E c \in BuddyChats(user, buddy) :
               creates' = [creates EXCEPT ![r] =
                              [pc |-> "done", user |-> user, buddy |-> buddy,
                               chat |-> c, status |-> 200, exists |-> TRUE]]
       ELSE creates' = [creates EXCEPT ![r] =
                           [IdleCreate EXCEPT !.pc = "create", !.user = user,
                                              !.buddy = buddy]]
    /\ UNCHANGED <<chats, chatUsers, breakerVars, webVars, searchVars>>

\* Chats.CreateChat: a row of Chats with a new id, or 500
CreateChat(r, ok) ==
    /\ creates[r].pc = "create"
    /\ IF ok
       THEN /\ chats' = chats \cup {Cardinality(chats) + 1}
            /\ creates' = [creates EXCEPT ![r].pc = "attach1",
                                          ![r].chat = Cardinality(chats) + 1]
       ELSE /\ chats' = chats
            /\ creates' = [creates EXCEPT ![r].pc = "done", ![r].status = 500]
    /\ UNCHANGED <<chatUsers, breakerVars, webVars, searchVars>>

\* Chats.AttachUserToChat, of the current user and then of the buddy: a row
\* of ChatUsers, or 500; after the second the handler answers 201
AttachUserToChat(r, ok) ==
    /\ creates[r].pc \in {"attach1", "attach2"}
    /\ IF ~ok
       THEN /\ chatUsers' = chatUsers
            /\ creates' = [creates EXCEPT ![r].pc = "done", ![r].status = 500]
       ELSE IF creates[r].pc = "attach1"
       THEN /\ chatUsers' = chatUsers \cup {<<creates[r].chat, creates[r].user>>}
            /\ creates' = [creates EXCEPT ![r].pc = "attach2"]
       ELSE /\ chatUsers' = chatUsers \cup {<<creates[r].chat, creates[r].buddy>>}
            /\ creates' = [creates EXCEPT ![r].pc = "done", ![r].status = 201]
    /\ UNCHANGED <<chats, breakerVars, webVars, searchVars>>

\* no breaker made, no goroutine in Execute
NoBreakers ==
    /\ cb = NoBreaker
    /\ callers = [g \in Callers |-> IdleCall]
    /\ pcb = NoSimpleBreaker
    /\ pcallers = [g \in Callers |-> IdleCall]

\* no chat, no request for one
NoCreates ==
    /\ chats = {}
    /\ chatUsers = {}
    /\ creates = [r \in CreateReqs |-> IdleCreate]

\* ----------------------------------------------- the lock of the registry
\* The calls that take the Manager's RWMutex: addClient for each client,
\* removeClient from each of its two loops, and the broadcasts. Each call is
\* two steps, taking the lock and then its body up to the unlock, except the
\* loop of a broadcast, which visits the clients one by one.
Broadcasters == 1 .. MaxBroadcasters
Mutators == {"addClient", "removeClient-r", "removeClient-w"} \X Reqs
Iterators == {"broadcast"} \X Broadcasters
LockCalls == Mutators \cup Iterators
NoCall == <<"none", 0>>

\* nobody holds the lock, no call has begun
LockIdle ==
    /\ mu = [w |-> NoCall, r |-> {}]
    /\ lpc = [p \in LockCalls |-> "idle"]
    /\ todo = [b \in Broadcasters |-> {}]

\* what the calls of this part leave alone
lockRest ==
    <<storeVars, reqs, chatVars, last, searchVars, breakerVars, createVars,
      sweepVars, pingVars, userID, rpc, wpc, writing, accepted, sock>>

CanLockShared(m) == m.w = NoCall

\* ws.Lock() can return: no writer and no reader holds the mutex
CanLock(m) == m.w = NoCall /\ m.r = {}

\* ws.RLock() can return: no writer holds the mutex
CanRLock(m) == m.w = NoCall

\* addClient of the client of request c (after its Upgrade returned the
\* connection): ws.Lock()
addClientLock(c) ==
    /\ lpc[<<"addClient", c>>] = "idle"
    /\ CanLock(mu)
    /\ mu' = [mu EXCEPT !.w = <<"addClient", c>>]
    /\ lpc' = [lpc EXCEPT ![<<"addClient", c>>] = "locked"]
    /\ conn' = [conn EXCEPT ![c] = "open"]
    /\ UNCHANGED <<Clients, closes, deletes, todo, lockRest>>

\* ws.Clients[client] = true, and the deferred ws.Unlock()
addClientUnlock(c) ==
    /\ lpc[<<"addClient", c>>] = "locked"
    /\ Clients' = addClient(Clients, c)
    /\ mu' = [mu EXCEPT !.w = NoCall]
    /\ lpc' = [lpc EXCEPT ![<<"addClient", c>>] = "done"]
    /\ UNCHANGED <<conn, closes, deletes, todo, lockRest>>

\* removeClient, deferred by a loop of the client (started after addClient
\* returned): ws.Lock()
removeClientLock(p) ==
    /\ p \in Mutators /\ p[1] # "addClient"
    /\ lpc[<<"addClient", p[2]>>] = "done"
    /\ lpc[p] = "idle"
    /\ CanLock(mu)
    /\ mu' = [mu EXCEPT !.w = p]
    /\ lpc' = [lpc EXCEPT ![p] = "locked"]
    /\ UNCHANGED <<Clients, conn, closes, deletes, todo, lockRest>>

\* the body of removeClient, and the deferred ws.Unlock()
removeClientUnlock(p) ==
    /\ p \in Mutators /\ p[1] # "addClient"
    /\ lpc[p] = "locked"
    /\ removeClient(p[2])
    /\ mu' = [mu EXCEPT !.w = NoCall]
    /\ lpc' = [lpc EXCEPT ![p] = "done"]
    /\ UNCHANGED <<todo, lockRest>>

\* BroadcastToChatParticipants: ws.RLock(), and "for client := range ws.Clients"
\* begins
BroadcastRLock(b) ==
    /\ lpc[<<"broadcast", b>>] = "idle"
    /\ CanRLock(mu)
    /\ mu' = [mu EXCEPT !.r = @ \cup {b}]
    /\ lpc' = [lpc EXCEPT ![<<"broadcast", b>>] = "iterating"]
    /\ todo' = [todo EXCEPT ![b] = Clients]
    /\ UNCHANGED <<Clients, conn, closes, deletes, lockRest>>

\* one iteration of the loop over ws.Clients: a client of the map is visited
\* (no writer of the client runs here, so its egress takes nothing)
BroadcastVisit(b, c) ==
    /\ lpc[<<"broadcast", b>>] = "iterating"
    /\ c \in todo[b]
    /\ todo' = [todo EXCEPT ![b] = @ \ {c}]
    /\ UNCHANGED <<mu, lpc, Clients, conn, closes, deletes, lockRest>>

\* the loop is over: the deferred ws.RUnlock()
BroadcastRUnlock(b) ==
    /\ lpc[<<"broadcast", b>>] = "iterating"
    /\ todo[b] = {}
    /\ mu' = [mu EXCEPT !.r = @ \ {b}]
    /\ lpc' = [lpc EXCEPT ![<<"broadcast", b>>] = "done"]
    /\ UNCHANGED <<todo, Clients, conn, closes, deletes, lockRest>>

\* ------------------------------------------- the end of the sweep
\* the owner of the context of NewRetentionMap calls its cancel function
CancelRetention ==
    /\ ~ctxCancel
    /\ ctxCancel' = TRUE
    /\ UNCHANGED <<storeVars, reqs, actorVars, chatVars, last, searchVars,
                   breakerVars, createVars, lockVars, pingVars>>

\* Retention, case <-ctx.Done(), which is ready once the context is cancelled
RetentionReturn ==
    /\ ctxCancel
    /\ RetentionCancel

\* ------------------------------------------------------- the keepalive
\* pongWait = 10 * time.Second, in the clock's units of 200 ms
pongWait == 50

\* pingInterval = (pongWait * 9) / 10
pingInterval == (pongWait * 9) \div 10

\* the keepalive is followed until this instant
MaxClock == 150

\* the rest of the state, which the keepalive leaves alone
pingRest ==
    <<storeVars, reqs, actorVars, chatVars, last, searchVars, breakerVars,
      createVars, lockVars, sweepVars>>

\* the upgrade has just started the two loops of the client
PingIdle ==
    /\ clock = 0
    /\ readDeadline = -1
    /\ ticker = -1
    /\ pinged = FALSE
    /\ ended = "no"

DeadlineKept(d, t) == d

\* time.Now().Add(pongWait), the argument of both calls of SetReadDeadline
Deadline(d, t) == t + pongWait

\* readMessages before its loop: SetReadDeadline(time.Now().Add(pongWait))
SetReadDeadline ==
    /\ readDeadline = -1
    /\ readDeadline' = clock + pongWait
    /\ UNCHANGED <<clock, ticker, pinged, ended, pingRest>>

\* writeMessages before its loop: ticker := time.NewTicker(pingInterval)
NewTicker ==
    /\ ticker = -1
    /\ ticker' = clock + pingInterval
    /\ UNCHANGED <<clock, readDeadline, pinged, ended, pingRest>>

\* time passes: both loops have started, the writer takes a tick at the
\* instant it fires and the blocked ReadMessage fails at the instant of its
\* deadline
Elapse ==
    /\ clock < MaxClock
    /\ ended = "no"
    /\ readDeadline # -1 /\ ticker # -1
    /\ clock < ticker
    /\ clock < readDeadline
    /\ clock' = clock + 1
    /\ UNCHANGED <<readDeadline, ticker, pinged, ended, pingRest>>

\* writeMessages, case <-ticker.C: the ping is written
WritePing ==
    /\ ended = "no"
    /\ ticker # -1 /\ clock = ticker
    /\ pinged' = TRUE
    /\ ticker' = ticker + pingInterval
    /\ UNCHANGED <<clock, readDeadline, ended, pingRest>>

\* writeMessages, case <-ticker.C: the write of the ping fails, writeMessages
\* returns and its removeClient closes the socket under the blocked read
PingFails ==
    /\ ended = "no"
    /\ ticker # -1 /\ clock = ticker
    /\ ended' = "error"
    /\ UNCHANGED <<clock, readDeadline, ticker, pinged, pingRest>>

\* the peer answers the ping before the read deadline and ReadMessage runs
\* the pong handler: SetReadDeadline(time.Now().Add(pongWait))
pongHandler ==
    /\ ended = "no"
    /\ pinged
    /\ clock < readDeadline
    /\ readDeadline' = Deadline(readDeadline, clock)
    /\ pinged' = FALSE
    /\ UNCHANGED <<clock, ticker, ended, pingRest>>

\* ReadMessage fails with a timeout: the read deadline has been reached
ReadTimeout ==
    /\ ended = "no"
    /\ readDeadline # -1
    /\ clock >= readDeadline
    /\ ended' = "deadline"
    /\ UNCHANGED <<clock, readDeadline, ticker, pinged, pingRest>>

\* ---------------------------------------------------------------- Init
\* no payload handled yet
NoRoute ==
    [c |-> 0, fail |-> "none",
     in |-> [json |-> FALSE, type |-> "", payloadOK |-> FALSE, chat_id |-> "",
             message |-> ""],
     out |-> [routed |-> FALSE, handler |-> "", calls |-> <<>>, err |-> ""]]

\* ConcurrentSearch is not called yet
SearchIdle ==
    /\ ctxErr = FALSE
    /\ worker = [s \in Sources |-> "none"]
    /\ resultCh = [s \in Sources |-> FALSE]
    /\ errorsCh = <<>>
    /\ errorsClosed = FALSE
    /\ wg = 0
    /\ main = "idle"
    /\ received = 0
    /\ result = [got |-> {}, Errors |-> <<>>, err |-> -1]

Init ==
    /\ now = 0
    /\ nextTick = SweepInterval
    /\ ctxDone = FALSE
    /\ rm = <<>>
    /\ nextKey = 0
    /\ consumed = {}
    /\ reqs = [r \in Reqs |-> IdleReq]
    /\ Clients = {}
    /\ userID = [c \in Reqs |-> 0]
    /\ conn = [c \in Reqs |-> "none"]
    /\ closes = [c \in Reqs |-> 0]
    /\ deletes = [c \in Reqs |-> 0]
    /\ rpc = [c \in Reqs |-> "none"]
    /\ wpc = [c \in Reqs |-> "none"]
    /\ writing = [c \in Reqs |-> {}]
    /\ accepted = [c \in Reqs |-> <<>>]
    /\ sock = [c \in Reqs |-> <<>>]
    /\ broadcasts = <<>>
    /\ messages = <<>>
    /\ last = NoRoute
    /\ SearchIdle
    /\ NoBreakers
    /\ NoCreates
    /\ LockIdle
    /\ ctxCancel = FALSE
    /\ PingIdle

\* the credential registry and the gateway, on the clock
NextOTP ==
    \/ \E u \in ClockUsers : NewOTP(u)
    \/ \E r \in Reqs : \E otp \in {EmptyOTP, ForgedOTP} \cup Keys : \E origin \in Origins :
          ServeBegin(r, otp, origin)
    \/ \E r \in Reqs : ServeDelete(r)
    \/ \E r \in Reqs : \E hs \in BOOLEAN : ServeUpgrade(r, hs)
    \/ RetentionTick
    \/ RetentionCancel
    \/ Advance

SpecOTP == Init /\ [][NextOTP]_vars

\* the transport: gateway, actors, router, handler and broadcast, within the
\* clock's first unit (no password expires)
Next ==
    \/ \E u \in Users : NewOTP(u)
    \/ \E r \in Reqs : \E otp \in {EmptyOTP, ForgedOTP} \cup Keys : \E origin \in Origins :
          ServeBegin(r, otp, origin)
    \/ \E r \in Reqs : ServeDelete(r)
    \/ \E r \in Reqs : \E hs \in BOOLEAN : ServeUpgrade(r, hs)
    \/ \E c \in Reqs : ReadError(c)
    \/ \E c \in Reqs : \E in \in Inbound : ReadMessage(c, in)
    \/ \E c \in Reqs : WriterStart(c)
    \/ \E c \in Reqs : \E f \in writing[c] : \E ok \in BOOLEAN : WriteDone(c, f, ok)
    \/ \E c \in Reqs : PingBegin(c)
    \/ \E c \in Reqs : PingDone(c)
    \/ \E c \in Reqs : PingError(c)

Spec == Init /\ [][Next]_vars

\* every request has been upgraded: each client is registered for some user
\* (the first for user 1), its reader in the loop and its writer in its select
InitChat ==
    /\ now = 0
    /\ nextTick = SweepInterval
    /\ ctxDone = FALSE
    /\ rm = <<>>
    /\ nextKey = MaxReqs
    /\ consumed = Reqs
    /\ reqs = [r \in Reqs |-> DoneReq("valid", FALSE, AllowedOrigin, Switching)]
    /\ Clients = Reqs
    /\ userID \in {u \in [Reqs -> Users] : u[1] = 1}
    /\ conn = [c \in Reqs |-> "open"]
    /\ closes = [c \in Reqs |-> 0]
    /\ deletes = [c \in Reqs |-> 0]
    /\ rpc = [c \in Reqs |-> "read"]
    /\ wpc = [c \in Reqs |-> "select"]
    /\ writing = [c \in Reqs |-> {}]
    /\ accepted = [c \in Reqs |-> <<>>]
    /\ sock = [c \in Reqs |-> <<>>]
    /\ broadcasts = <<>>
    /\ messages = <<>>
    /\ last = NoRoute
    /\ SearchIdle
    /\ NoBreakers
    /\ NoCreates
    /\ LockIdle
    /\ ctxCancel = FALSE
    /\ PingIdle

\* the connected clients: reader, router, handler and writer
NextChat ==
    \/ \E c \in Reqs : ReadError(c)
    \/ \E c \in Reqs : \E in \in Inbound : ReadRouted(c, in)
    \/ \E c \in Reqs : \E f \in writing[c] : \E ok \in BOOLEAN : WriteDone(c, f, ok)

SpecChat == InitChat /\ [][NextChat]_vars

\* the connected clients under calls of BroadcastToChatParticipants
NextBroadcast ==
    \/ \E ids \in ParticipantLists : \E ok \in BOOLEAN :
          BroadcastToChatParticipants(ids, ok)
    \/ \E c \in Reqs : ReadError(c)
    \/ \E c \in Reqs : \E f \in writing[c] : \E ok \in BOOLEAN : WriteDone(c, f, ok)
    \/ \E c \in Reqs : PingBegin(c)
    \/ \E c \in Reqs : PingDone(c)
    \/ \E c \in Reqs : PingError(c)

SpecBroadcast == InitChat /\ [][NextBroadcast]_vars

\* one call of ConcurrentSearch
NextSearch ==
    \/ \E cancelled \in BOOLEAN : ConcurrentSearch(cancelled)
    \/ CancelContext
    \/ \E s \in Sources : WorkerCheck(s)
    \/ \E s \in Sources : \E ok \in BOOLEAN : WorkerExecute(s, ok)
    \/ CloseErrors
    \/ \E s \in Sources : Receive(s)
    \/ RangeErrors

\* every goroutine that can take a step is scheduled in the end
SpecSearch == Init /\ [][NextSearch]_vars /\ WF_vars(NextSearch)

\* ------------------------------------------------------------ properties
\* the age of the password a VerifyOTP call has just found
AgeFound(r) == now - reqs[r].otpObj.Created

\* C1 (single use): a VerifyOTP call for a key that begins after some VerifyOTP
\* call for that key has returned true does not find the key, whatever NewOTP,
\* VerifyOTP and sweep steps lie between the two
C1_SingleUse == \A r \in Reqs : reqs[r].late => reqs[r].token # "valid"

\* a request presents a key that was consumed before and is answered 401
C1_Witness ==
    \E r \in Reqs :
        /\ reqs[r].late
        /\ reqs[r].token = "invalid"
        /\ reqs[r].status = Unauthorized
        /\ nextKey = MaxOTPs

\* C2 (retention window): VerifyOTP finds a password only if its age does not
\* exceed the retention period; stated where the claim is strongest, with
\* Retention still running
C2_WithinRetention ==
    \A r \in Reqs :
        (~ctxDone /\ reqs[r].pc = "delete") => AgeFound(r) <= RetentionPeriod

\* C3 (expiry bound): while Retention runs, VerifyOTP finds no password older
\* than the retention period plus one sweep interval
C3_ExpiryBound ==
    \A r \in Reqs :
        (~ctxDone /\ reqs[r].pc = "delete") => AgeFound(r) <= RetentionPeriod + SweepInterval

\* while Retention runs, a password is found at exactly that age
C3_Witness ==
    \E r \in Reqs :
        /\ ~ctxDone
        /\ reqs[r].pc = "delete"
        /\ AgeFound(r) = RetentionPeriod + SweepInterval

\* the request is over and was refused without a client
Refused(r, status) ==
    /\ reqs[r].pc = "done"
    /\ reqs[r].status = status
    /\ conn[r] = "none"
    /\ r \notin Clients
    /\ rpc[r] = "none"
    /\ wpc[r] = "none"

\* C4 as claimed (origin allow-list): a request whose origin is not allowed is
\* answered 401 Unauthorized and no client is made for it, valid token or not
C4_OriginUnauthorized ==
    \A r \in Reqs :
        (reqs[r].pc = "done" /\ ~checkOrigin(reqs[r].origin)) => Refused(r, Unauthorized)

\* C4 as amended: a request whose origin is not allowed never gets past the
\* gateway and no client is made for it; it is answered 401 Unauthorized by
\* ServeWebsocket if its token is missing or not in the store, and otherwise
\* refused by upgrader.Upgrade
C4_OriginRejected ==
    \A r \in Reqs :
        (reqs[r].token # "" /\ reqs[r].origin # AllowedOrigin) =>
            /\ reqs[r].status # Switching
            /\ conn[r] = "none" /\ r \notin Clients
            /\ reqs[r].pc = "done" =>
                  IF reqs[r].token = "valid"
                  THEN Refused(r, UpgradeRefused)
                  ELSE Refused(r, Unauthorized)

\* a request with a valid token and a foreign origin has been refused
C4_Witness ==
    \E r \in Reqs :
        /\ reqs[r].token = "valid"
        /\ reqs[r].origin # AllowedOrigin
        /\ Refused(r, UpgradeRefused)

\* C5 (token gate): a request whose token is missing or not in the store is
\* answered 401 at once: it never reaches the upgrade and no client is made
C5_TokenGate ==
    \A r \in Reqs : reqs[r].token \in {"missing", "invalid"} => Refused(r, Unauthorized)

\* a request presenting a consumed token has been answered 401 while another
\* request's client is registered
C5_Witness ==
    \E r \in Reqs :
        /\ reqs[r].token = "invalid"
        /\ reqs[r].late
        /\ Refused(r, Unauthorized)
        /\ Clients # {}

\* C6 (broadcast fidelity): every client a broadcast hands its event to
\* belongs to a user storage lists as participant of the event's chat
C6_BroadcastFidelity ==
    /\ \A i \in DOMAIN broadcasts :
          \A c \in broadcasts[i].sent \cup broadcasts[i].skipped :
              IsUserInChat(broadcasts[i].event.chat_id, userID[c])
    /\ \A c \in Reqs : \A i \in DOMAIN accepted[c] :
          IsUserInChat(accepted[c][i].chat_id, userID[c])

\* a broadcast visited a registered client of a non-participant and handed the
\* event to a participant's client only
C6_Witness ==
    \E i \in DOMAIN broadcasts :
        /\ \E c \in broadcasts[i].visited :
              /\ ~IsUserInChat(broadcasts[i].event.chat_id, userID[c])
              /\ accepted[c] = <<>>
        /\ broadcasts[i].sent # {}

\* C7 as claimed (end to end): for every send_message that succeeds one row is
\* stored, every registered client of a participant takes the new_message
\* event, and no client of a non-participant does
C7_EndToEnd ==
    \A i \in DOMAIN broadcasts :
        /\ Cardinality({k \in DOMAIN messages :
                           /\ messages[k].id = broadcasts[i].event.message_id
                           /\ messages[k].chat_id = broadcasts[i].event.chat_id
                           /\ messages[k].sender = broadcasts[i].event.sender
                           /\ messages[k].content = broadcasts[i].event.content}) = 1
        /\ \A c \in broadcasts[i].visited :
              IsUserInChat(broadcasts[i].event.chat_id, userID[c]) <=>
                  c \in broadcasts[i].sent

Pos(seq, x) == CHOOSE i \in DOMAIN seq : seq[i] = x

\* C8 (single writer): at most one write is in progress on a client's socket,
\* and it is a write of the client's writeMessages goroutine
C8_SingleWriter ==
    \A c \in Reqs :
        /\ Cardinality(writing[c]) <= 1
        /\ writing[c] # {} => wpc[c] \in {"write", "ping"}

\* a broadcast found the client busy writing the event of the broadcast before it
C8_Witness ==
    \E c \in Reqs :
        /\ Len(broadcasts) = 2
        /\ broadcasts[1].event \in writing[c]
        /\ c \in broadcasts[2].skipped

\* C9 (per-actor order): the events written to a client's socket are events
\* its queue accepted, written in the order of acceptance; an event is written
\* only when no event accepted before it is still to be written
C9_Ordering ==
    \A c \in Reqs :
        /\ \A i \in DOMAIN sock[c] : \E k \in DOMAIN accepted[c] : accepted[c][k] = sock[c][i]
        /\ \A i, j \in DOMAIN sock[c] :
              i < j => Pos(accepted[c], sock[c][i]) < Pos(accepted[c], sock[c][j])
        /\ \A i \in DOMAIN sock[c] : \A f \in writing[c] :
              f.type = "new_message" => Pos(accepted[c], sock[c][i]) < Pos(accepted[c], f)

\* a client has taken two events and both are written
C9_Witness == \E c \in Reqs : Len(accepted[c]) = 2 /\ Len(sock[c]) = 2

\* C10 (idempotent teardown): over the teardown calls of both loops the
\* socket of a client is closed once and the client deleted once, by the call
\* of the loop that ends first; the other call changes nothing
C10_IdempotentTeardown ==
    \A c \in Reqs :
        /\ closes[c] <= 1
        /\ deletes[c] <= 1
        /\ (rpc[c] = "done" \/ wpc[c] = "done") =>
              /\ closes[c] = 1
              /\ deletes[c] = 1
              /\ conn[c] = "closed"
              /\ c \notin Clients

\* both loops of a client have ended and run their teardown
C10_Witness ==
    \E c \in Reqs : rpc[c] = "done" /\ wpc[c] = "done" /\ closes[c] = 1 /\ deletes[c] = 1

\* how often x occurs in seq
Count(seq, x) == Cardinality({i \in DOMAIN seq : seq[i] = x})

\* the broadcasts of event e that handed it to client c
SentTo(c, e) == {j \in DOMAIN broadcasts : broadcasts[j].event = e /\ c \in broadcasts[j].sent}

\* C11 (non-blocking enqueue): a broadcast that finds the queue of a client
\* unable to take the event drops it for that client only: every registered
\* client of a participant is either handed the event or skipped, a skipped
\* client's queue does not get the event, the others' queues do, and the
\* broadcast (and with it the handler) returns no error
C11_NonBlockingEnqueue ==
    /\ \A i \in DOMAIN broadcasts :
          LET b == broadcasts[i]
          IN  /\ b.err = ""
              /\ b.sent \cap b.skipped = {}
              /\ \A c \in b.visited :
                    IsParticipant(userID[c], b.participants) => c \in b.sent \cup b.skipped
              /\ \A c \in Reqs : Count(accepted[c], b.event) = Cardinality(SentTo(c, b.event))
    /\ (last.out.handler = "send_message" /\ last.fail = "none"
            /\ Len(last.out.calls) = 4) => last.out.err = ""

\* the handler's broadcast handed its event to one client and skipped another,
\* whose writer was busy, and the handler returned nil
C11_Witness ==
    /\ last.out.err = ""
    /\ last.out.handler = "send_message"
    /\ \E i \in DOMAIN broadcasts :
          /\ i = Len(broadcasts)
          /\ broadcasts[i].sent # {}
          /\ broadcasts[i].skipped # {}
          /\ \E c \in broadcasts[i].sent : broadcasts[i].event \in writing[c]

\* the payload is a send_message event whose payload parses
IsSendMessage(in) == in.json /\ in.type = "send_message" /\ in.payloadOK

\* a step of readMessages that handles a payload: only ReadRouted changes the
\* history of the router, the stored messages or the broadcasts, and a step
\* of it that changes none of them changes nothing at all
Handled == last' # last \/ messages' # messages \/ broadcasts' # broadcasts

\* C12 (empty message): a send_message whose text is empty is answered with
\* the error "message content cannot be empty" before any storage call, and
\* the step stores no message and broadcasts nothing
C12_EmptyMessage ==
    [][(Handled /\ IsSendMessage(last'.in) /\ last'.in.message = "")
          => /\ last'.out.err = "message content cannot be empty"
             /\ last'.out.calls = <<>>
             /\ UNCHANGED <<messages, broadcasts, accepted, writing, wpc>>]_vars

\* a participant of a chat has sent that chat an empty text, and it was rejected
C12_Witness ==
    /\ last.c # 0
    /\ IsSendMessage(last.in)
    /\ last.in.message = ""
    /\ last.in.chat_id \in ChatIDs
    /\ IsUserInChat(last.in.chat_id, userID[last.c])
    /\ last.out.err = "message content cannot be empty"

\* the send_message fails validation: empty text, a chat id that is no UUID, or
\* a sender storage does not list among the participants of the chat
ValidationFailure(c, in) ==
    /\ IsSendMessage(in)
    /\ \/ in.message = ""
       \/ in.chat_id \notin ChatIDs
       \/ ~IsParticipant(userID[c], GetChatParticipantIDs(in.chat_id))

\* C13 (validation failures leave no trace): the step that handles a
\* send_message failing validation returns an error, stores no message, puts
\* no event on any client's queue and writes nothing to any socket, the
\* sender's included
C13_NoTrace ==
    [][(Handled /\ ValidationFailure(last'.c, last'.in))
          => /\ last'.out.err # ""
             /\ UNCHANGED <<messages, broadcasts, accepted, writing, wpc, sock>>]_vars

\* a user who is no participant of chat c1 has sent it a text while the client
\* of a participant was ready to take an event, and nothing was stored or sent
C13_Witness ==
    /\ last.c # 0
    /\ last.in.chat_id = "c1"
    /\ last.in.message = "hi"
    /\ last.out.err = "user is not a member of this chat"
    /\ \E c \in Clients : IsUserInChat("c1", userID[c]) /\ wpc[c] = "select"
    /\ messages = <<>>
    /\ broadcasts = <<>>

\* the storage calls of SendMessage, in the order of the code
HandlerCalls == <<"IsUserInChat", "CreateChatMessage", "GetUserByID", "GetChatParticipantIDs">>

\* C14 (handler step order): the storage calls of one send_message are a
\* prefix of IsUserInChat, CreateChatMessage, GetUserByID and the broadcast's
\* GetChatParticipantIDs; the broadcast runs only after the three before it
\* succeeded for a sender who is a participant; a call that fails is the last
\* call made, the handler returns an error, and no later step takes effect
C14_StepOrder ==
    [][(Handled /\ IsSendMessage(last'.in))
          => LET o == last'.out
                 k == Len(o.calls)
             IN  /\ o.calls = SubSeq(HandlerCalls, 1, k)
                 /\ \A i \in DOMAIN o.calls :
                       o.calls[i] = last'.fail => i = k /\ o.err # ""
                 /\ broadcasts' # broadcasts =>
                       /\ k = Len(HandlerCalls)
                       /\ o.err = ""
                       /\ IsUserInChat(last'.in.chat_id, userID[last'.c])
                       /\ Len(messages') = Len(messages) + 1
                 /\ messages' # messages => k >= 2 /\ last'.fail # "CreateChatMessage"
                 /\ o.err # "" => UNCHANGED <<broadcasts, accepted, writing, wpc>>
                 /\ k < 2 => UNCHANGED messages]_vars

\* GetUserByID failed after the message was stored: the handler returned the
\* error and no broadcast ran
C14_Witness ==
    /\ last.fail = "GetUserByID"
    /\ last.out.err = "failed to get sender info"
    /\ last.out.calls = SubSeq(HandlerCalls, 1, 3)
    /\ Len(messages) = 1
    /\ broadcasts = <<>>

\* C15 (the session survives bad messages): the step that handles a payload
\* which is no JSON event, an event of a type without handler, or an event
\* whose handler returns an error leaves the reader in its loop, the socket
\* open and the client in the registry, so that the next payload is read
C15_SessionSurvives ==
    [][(Handled /\ last'.out.err # "")
          => /\ rpc'[last'.c] = "read"
             /\ conn'[last'.c] = "open"
             /\ last'.c \in Clients => last'.c \in Clients'
             /\ UNCHANGED <<closes, deletes>>]_vars

\* an event of unknown type was handled with an error; the client is still
\* registered, its socket open and its reader in the loop
C15_Witness ==
    /\ last.c \in Clients
    /\ last.out.err = "event type not found"
    /\ rpc[last.c] = "read"
    /\ conn[last.c] = "open"

\* C16 (unknown event type): for an event whose type has no handler routeEvent
\* returns "event type not found" and calls no handler; it returns nil only if
\* the handler registered for the type ran and returned nil
C16_UnknownType ==
    (last.c # 0 /\ last.out.routed) =>
        /\ last.in.type \notin Handlers =>
              /\ last.out.err = "event type not found"
              /\ last.out.handler = ""
              /\ last.out.calls = <<>>
        /\ last.out.err = "" =>
              /\ last.out.handler \in Handlers
              /\ last.out.handler = last.in.type
              /\ last.out.calls = HandlerCalls

\* routeEvent was called with an event of type "typing"
C16_Witness ==
    /\ last.c # 0
    /\ last.out.routed
    /\ last.in.type = "typing"
    /\ last.out.err = "event type not found"

\* C17 (actor identity): a client enters the registry only in the step in
\* which upgrader.Upgrade succeeds for a request whose VerifyOTP found and
\* deleted a stored password, and it is bound for good to the user that
\* password was stored for; every registered client belongs to such a
\* request; a request answered 401 or refused by Upgrade has no client, no
\* socket and no goroutine
C17_ActorIdentity ==
    [][\A r \in Reqs :
          /\ (reqs[r].pc = "idle" /\ reqs'[r].pc = "delete") =>
                /\ reqs'[r].otpObj.Key \in DOMAIN rm
                /\ reqs'[r].otpObj = rm[reqs'[r].otpObj.Key]
          /\ reqs'[r].pc = "upgrade" => reqs'[r].otpObj = reqs[r].otpObj
          /\ r \in Clients' \ Clients =>
                /\ reqs[r].pc = "upgrade"
                /\ reqs[r].token = "valid"
                /\ reqs[r].otpObj.Key \in consumed
                /\ reqs[r].otpObj.Key \notin DOMAIN rm
                /\ reqs'[r].status = Switching
                /\ userID'[r] = reqs[r].otpObj.UserID
          /\ userID'[r] # userID[r] => r \in Clients' \ Clients
          /\ r \in Clients' => reqs'[r].status = Switching /\ reqs'[r].token = "valid"
          /\ reqs'[r].status \in {Unauthorized, UpgradeRefused} =>
                /\ r \notin Clients'
                /\ conn'[r] = "none"
                /\ rpc'[r] = "none"
                /\ wpc'[r] = "none"]_vars

\* a client is registered for user 2, whose password its request consumed,
\* and a request that consumed a valid password but failed to upgrade has none
C17_Witness ==
    /\ \E c \in Clients : userID[c] = 2 /\ reqs[c].status = Switching
    /\ \E r \in Reqs :
          /\ reqs[r].status = UpgradeRefused
          /\ reqs[r].token = "valid"
          /\ r \notin Clients
          /\ conn[r] = "none"

\* C18 (at most once): a client's queue takes the event of a broadcast at
\* most once per broadcast that handed it the event, also when the
\* participant list names the client's user twice, and an event is written to
\* the client's socket no more often than its queue took it
C18_AtMostOnce ==
    \A c \in Reqs :
        /\ Len(accepted[c]) <= Len(broadcasts)
        /\ \A i \in DOMAIN broadcasts :
              LET e == broadcasts[i].event
              IN  /\ Count(accepted[c], e) <= Cardinality(SentTo(c, e))
                  /\ Count(sock[c], e) <= Count(accepted[c], e)
                  /\ Count(sock[c], e) + Cardinality(writing[c] \cap {e})
                         <= Count(accepted[c], e)

\* one broadcast whose participant list names user 1 twice: a client of user
\* 1 took the event once and wrote it once
C18_Witness ==
    /\ Len(broadcasts) = 1
    /\ broadcasts[1].participants = <<1, 1>>
    /\ \E c \in broadcasts[1].sent :
          /\ userID[c] = 1
          /\ accepted[c] = <<broadcasts[1].event>>
          /\ sock[c] = <<broadcasts[1].event>>

\* C19 (empty participant set): a broadcast whose participant list is empty
\* hands its event to no client and skips none, whatever clients are
\* registered, puts nothing on any queue, and returns no error
C19_EmptyParticipants ==
    /\ \A i \in DOMAIN broadcasts :
          broadcasts[i].participants = <<>> =>
              /\ broadcasts[i].sent = {}
              /\ broadcasts[i].skipped = {}
              /\ broadcasts[i].err = ""
    /\ \A c \in Reqs :
          Len(accepted[c]) = Cardinality({j \in DOMAIN broadcasts : c \in broadcasts[j].sent})

\* a broadcast with an empty participant list has visited registered clients,
\* one of them ready to take an event, and no queue holds anything
C19_Witness ==
    /\ Len(broadcasts) = 1
    /\ broadcasts[1].participants = <<>>
    /\ broadcasts[1].visited # {}
    /\ \E c \in broadcasts[1].visited : wpc[c] = "select"
    /\ \A c \in Reqs : accepted[c] = <<>> /\ writing[c] = {}

\* C20 as claimed (ConcurrentSearch always returns): every call of
\* ConcurrentSearch returns in the end, whichever sub-searches fail or find
\* the context cancelled
C20_AlwaysReturns == (main # "idle") ~> (main = "returned")

\* the sliding-window breaker and the goroutines calling its Execute
NextWindow ==
    \/ \E m \in 1 .. MaxThreshold : \E w \in 1 .. MaxWindow : NewCircuitBreaker(m, w)
    \/ ResetTimeoutPasses
    \/ \E g \in Callers : canExecute(g)
    \/ \E g \in Callers : \E success \in BOOLEAN : recordResult(g, success)

SpecWindow == Init /\ [][NextWindow]_vars

\* the simple breaker and the goroutines calling its Execute
NextSimple ==
    \/ \E m \in 1 .. MaxThreshold : NewSimpleBreaker(m)
    \/ TimeoutPasses
    \/ \E g \in Callers : beforeRequest(g)
    \/ \E g \in Callers : \E success \in BOOLEAN : afterRequest(g, success)

SpecSimple == Init /\ [][NextSimple]_vars

\* both breakers made, the sliding-window one with a window of two results,
\* and not yet used
InitBreakers ==
    /\ now = 0
    /\ nextTick = SweepInterval
    /\ ctxDone = FALSE
    /\ rm = <<>>
    /\ nextKey = 0
    /\ consumed = {}
    /\ reqs = [r \in Reqs |-> IdleReq]
    /\ Clients = {}
    /\ userID = [c \in Reqs |-> 0]
    /\ conn = [c \in Reqs |-> "none"]
    /\ closes = [c \in Reqs |-> 0]
    /\ deletes = [c \in Reqs |-> 0]
    /\ rpc = [c \in Reqs |-> "none"]
    /\ wpc = [c \in Reqs |-> "none"]
    /\ writing = [c \in Reqs |-> {}]
    /\ accepted = [c \in Reqs |-> <<>>]
    /\ sock = [c \in Reqs |-> <<>>]
    /\ broadcasts = <<>>
    /\ messages = <<>>
    /\ last = NoRoute
    /\ SearchIdle
    /\ cb = [NoBreaker EXCEPT !.state = "Closed", !.maxFailures = MaxThreshold,
                              !.windowSize = 2]
    /\ callers = [g \in Callers |-> IdleCall]
    /\ pcb = [NoSimpleBreaker EXCEPT !.state = "Closed", !.maxFailures = MaxThreshold]
    /\ pcallers = [g \in Callers |-> IdleCall]
    /\ NoCreates
    /\ LockIdle
    /\ ctxCancel = FALSE
    /\ PingIdle

\* both breakers and the goroutines calling their Execute
NextBreakers ==
    \/ ResetTimeoutPasses
    \/ \E g \in Callers : canExecute(g)
    \/ \E g \in Callers : \E success \in BOOLEAN : recordResult(g, success)
    \/ TimeoutPasses
    \/ \E g \in Callers : beforeRequest(g)
    \/ \E g \in Callers : \E success \in BOOLEAN : afterRequest(g, success)

SpecBreakers == InitBreakers /\ [][NextBreakers]_vars

\* the requests to create a buddy chat
NextCreate ==
    \/ \E r \in CreateReqs : \E user, buddy \in Users : \E ok \in BOOLEAN :
          GetBuddyChatID(r, user, buddy, ok)
    \/ \E r \in CreateReqs : \E ok \in BOOLEAN : CreateChat(r, ok)
    \/ \E r \in CreateReqs : \E ok \in BOOLEAN : AttachUserToChat(r, ok)

SpecCreate == Init /\ [][NextCreate]_vars

\* ------------------------------------------------ circuit breakers
\* the test request of the sliding-window breaker is in flight: the breaker is
\* HalfOpen and the call that moved it there has not recorded its result
ProbeInFlight ==
    /\ cb.state = "HalfOpen"
    /\ \E h \in Callers : callers[h].pc = "fn" /\ callers[h].probe

\* C21: while the sliding-window breaker is HalfOpen and its test request has
\* not recorded its result, no other call of Execute is admitted to run its
\* function
C21_SingleProbe ==
    [][ProbeInFlight =>
          \A g \in Callers : callers[g].pc # "fn" => callers'[g].pc # "fn"]_vars

\* the sliding-window breaker records the result of a request begun and ended
\* while it is Closed
RecordsWhenClosed ==
    /\ cb.state = "Closed"
    /\ \E g \in Callers : callers[g].pc = "fn" /\ callers'[g].pc = "idle"

\* C22: a result recorded by the Closed sliding-window breaker opens it
\* exactly when the window then holds windowSize results of which strictly
\* more than half are failures; otherwise the breaker stays Closed
C22_Threshold ==
    [][RecordsWhenClosed =>
          /\ cb'.state \in {"Closed", "Open"}
          /\ cb'.state = "Open" <=>
                /\ Len(cb'.recentRequests) = cb.windowSize
                /\ 2 * FailureCount(cb'.recentRequests) > cb.windowSize]_vars

\* a full window of which exactly half are failures, and the breaker Closed
C22_Witness ==
    /\ cb.state = "Closed"
    /\ cb.windowSize = 2
    /\ Len(cb.recentRequests) = 2
    /\ FailureCount(cb.recentRequests) = 1

\* C23: once the failed requests counted by the sliding-window breaker reach
\* maxFailures, the breaker has opened: it is not Closed
C23_MaxFailures ==
    (cb.state # "none" /\ cb.failures >= cb.maxFailures) => cb.state # "Closed"

\* goroutine g, whose call moved the sliding-window breaker from Open to
\* HalfOpen, returns from fn with success and records it
ProbeSucceeds(g) ==
    /\ callers[g].pc = "fn"
    /\ callers[g].probe
    /\ callers'[g].pc = "idle"
    /\ cb' = recordResultOf(cb, TRUE)

\* C24: the first Execute after the reset timeout elapsed in Open is admitted
\* and run, and when it succeeds the sliding-window breaker is Closed with its
\* failure count and its window cleared, so that the next request is admitted
C24_Recovery ==
    [][/\ \A g \in Callers :
             (/\ cb.state = "Open" /\ cb.elapsed
              /\ callers[g].pc # "fn" /\ callers'[g] # callers[g])
                 => callers'[g].pc = "fn"
       /\ \A g \in Callers :
             ProbeSucceeds(g) =>
                /\ cb'.state = "Closed"
                /\ cb'.failures = 0
                /\ cb'.recentRequests = <<>>
                /\ canExecuteOf(cb').ok]_vars

\* C25: the simple breaker, Closed with no failure at first, is Closed as long
\* as fewer than maxFailures calls failed in a row, its count being their
\* number, and opens exactly with the failure that makes them maxFailures,
\* Failures() then being maxFailures
C25_Tripping ==
    [][/\ pcb.state = "Closed" =>
             pcb.streak < pcb.maxFailures /\ pcb.failures = pcb.streak
       /\ (pcb.state = "Closed" /\ pcb'.state = "Open") =>
             /\ pcb'.streak = pcb.maxFailures
             /\ pcb'.failures = pcb.maxFailures
       /\ (pcb.state = "Closed" /\ pcb'.streak = pcb.maxFailures) =>
             pcb'.state = "Open"]_vars

\* the simple breaker has just opened, with maxFailures failures counted
C25_Witness ==
    /\ pcb.state = "Open"
    /\ pcb.maxFailures = MaxThreshold
    /\ pcb.streak = pcb.maxFailures
    /\ pcb.failures = pcb.maxFailures

\* goroutine g, whose call moved the simple breaker from Open to HalfOpen,
\* returns from fn and records its result
SimpleProbeEnds(g, success) ==
    /\ pcallers[g].pc = "fn"
    /\ pcallers[g].probe
    /\ pcallers'[g].pc = "idle"
    /\ pcb' = afterRequestOf(pcb, success)

\* C26: the first request after the timeout elapsed in Open is admitted with
\* the simple breaker HalfOpen, and its outcome decides the state: after its
\* success the breaker is Closed with no failure counted, after its failure
\* the breaker is Open
C26_HalfOpenOutcome ==
    [][/\ \A g \in Callers :
             (/\ pcb.state = "Open" /\ pcb.elapsed
              /\ pcallers[g].pc # "fn" /\ pcallers'[g] # pcallers[g])
                 => pcallers'[g].pc = "fn" /\ pcb'.state = "HalfOpen"
       /\ \A g \in Callers :
             SimpleProbeEnds(g, TRUE) => pcb'.state = "Closed" /\ pcb'.failures = 0
       /\ \A g \in Callers :
             SimpleProbeEnds(g, FALSE) => pcb'.state = "Open"]_vars

\* C27: while a breaker, of either kind, is Open and its timeout has not
\* elapsed, a call of Execute is rejected with ErrCircuitOpen: its function is
\* not run and the breaker's state and counters stay as they are
C27_OpenRejects ==
    [][/\ \A g \in Callers :
             (/\ cb.state = "Open" /\ ~cb.elapsed
              /\ callers[g].pc # "fn" /\ callers'[g] # callers[g])
                 => callers'[g].pc = "rejected" /\ cb' = cb
       /\ \A g \in Callers :
             (/\ pcb.state = "Open" /\ ~pcb.elapsed
              /\ pcallers[g].pc # "fn" /\ pcallers'[g] # pcallers[g])
                 => pcallers'[g].pc = "rejected" /\ pcb' = pcb]_vars

\* both breakers Open before their timeout, each having rejected a call
C27_Witness ==
    /\ cb.state = "Open" /\ ~cb.elapsed
    /\ \E g \in Callers : callers[g].pc = "rejected"
    /\ pcb.state = "Open" /\ ~pcb.elapsed
    /\ \E g \in Callers : pcallers[g].pc = "rejected"

\* ------------------------------------------------- chat creation
\* C28: whatever CreateChat requests are made for a pair of users, one after
\* another or at the same time, at most one buddy chat between the two exists,
\* and a request that finds the chat answers with its id and exists = true
\* and creates nothing
C28_IdempotentCreate ==
    /\ \A u, v \in Users : u # v => Cardinality(BuddyChats(u, v)) <= 1
    /\ \A r \in CreateReqs :
          creates[r].exists =>
             /\ creates[r].status = 200
             /\ creates[r].chat \in BuddyChats(creates[r].user, creates[r].buddy)

\* ------------------------------------------------- outbound loop
\* the write of a dequeued event to the socket of actor c returns an error
WriteFails(c) ==
    /\ wpc[c] = "write"
    /\ wpc'[c] # "write"
    /\ sock'[c] = sock[c]

\* C29: when writing a dequeued event to the socket fails, the outbound loop
\* of the actor exits and its teardown takes the actor out of the registry
C29_OutboundExit ==
    [][\A c \in Reqs : WriteFails(c) => wpc'[c] = "done" /\ c \notin Clients']_vars

\* ------------------------------------------------- verification
\* VerifyOTP has returned true to request r, which has not gone on yet
Found(r) == reqs[r].pc = "upgrade" /\ reqs[r].token = "valid"

\* C30: of the VerifyOTP calls for one password that run at the same time,
\* each a lookup and then a delete, at most one returns true
C30_AtomicVerify ==
    \A r1, r2 \in Reqs :
        (r1 # r2 /\ Found(r1) /\ Found(r2)) => reqs[r1].otpObj.Key # reqs[r2].otpObj.Key

\* ------------------------------------------------- the outbound queue
\* the loop of BroadcastToChatParticipants that has just run
LastBroadcast == broadcasts'[Len(broadcasts')]

\* C31: the egress channel of an actor holds no pending event: an event is
\* accepted only when writeMessages is blocked in its select, which takes it
\* at once to write it, and a broadcast that finds the loop writing an event
\* or a ping skips the actor
C31_ZeroCapacity ==
    [][\A c \in Reqs :
          /\ accepted'[c] # accepted[c] =>
                /\ wpc[c] = "select"
                /\ wpc'[c] = "write"
                /\ Len(accepted'[c]) = Len(accepted[c]) + 1
                /\ accepted'[c][Len(accepted'[c])] \in writing'[c]
          /\ (/\ Len(broadcasts') > Len(broadcasts)
              /\ c \in Clients
              /\ IsParticipant(userID[c], LastBroadcast.participants)
              /\ wpc[c] \in {"write", "ping"}) =>
                /\ accepted'[c] = accepted[c]
                /\ c \in LastBroadcast.skipped]_vars

\* a broadcast skipped an actor whose loop is writing a ping, and another
\* skipped an actor whose loop is writing an earlier event
C31_Witness ==
    /\ \E i \in DOMAIN broadcasts : \E c \in broadcasts[i].skipped :
          wpc[c] = "ping" /\ accepted[c] = <<>>
    /\ \E i \in DOMAIN broadcasts : \E c \in broadcasts[i].skipped :
          wpc[c] = "write" /\ Len(accepted[c]) = 1

\* ------------------------------------------------- the gateway, again
\* ServeWebsocket of request r begins, and finds its key verified before
RepeatsToken(r) ==
    /\ reqs[r].pc = "idle"
    /\ reqs'[r].pc # "idle"
    /\ reqs'[r].late

\* C32: the token of a request is verified and removed before the origin check
\* and the handshake of upgrader.Upgrade run, whether the upgrade then fails
\* or not; a removed token is never in the store again, and every later
\* request that presents it is answered 401 Unauthorized
C32_FailedUpgradeConsumes ==
    [][/\ \A r \in Reqs :
             reqs[r].pc = "upgrade" =>
                /\ reqs[r].otpObj.Key \notin DOMAIN rm
                /\ reqs[r].otpObj.Key \in consumed
       /\ \A k \in consumed : k \notin DOMAIN rm'
       /\ \A r \in Reqs :
             RepeatsToken(r) =>
                /\ reqs'[r].pc = "done"
                /\ reqs'[r].token = "invalid"
                /\ reqs'[r].status = Unauthorized]_vars

\* a request with a valid token was refused by the upgrade, and a later request
\* with the same token was answered 401; no request was upgraded
C32_Witness ==
    \E r1, r2 \in Reqs :
        /\ reqs[r1].token = "valid"
        /\ Refused(r1, UpgradeRefused)
        /\ reqs[r2].late
        /\ Refused(r2, Unauthorized)
        /\ \A r \in Reqs : reqs[r].status # Switching

\* ------------------------------------------------- circuit breakers, again
\* the sliding-window breaker is HalfOpen, its test request is used, and no
\* admitted request is left to record a result: every Execute is rejected
Wedged ==
    /\ cb.state = "HalfOpen"
    /\ cb.halfOpenTestDone
    /\ \A g \in Callers : callers[g].pc # "fn"

\* C33: the sliding-window breaker is never left HalfOpen with its test
\* request used and completed, where no request is admitted any more
C33_NeverWedges == ~Wedged

\* ------------------------------------------------- the registry, again
\* the upgrade of request c succeeded: its client was made
Upgraded(c) == reqs[c].status = Switching

FairLoops ==
    \A c \in Reqs :
        /\ WF_vars(PingBegin(c))
        /\ WF_vars(PingDone(c) \/ PingError(c))
        /\ WF_vars(\E f \in writing[c] : \E ok \in BOOLEAN : WriteDone(c, f, ok))
        /\ WF_vars(~Alive(c) /\ ReadError(c))

\* the connected clients with broadcasts and pings, under that scheduling
SpecLoops == InitChat /\ [][NextBroadcast]_vars /\ FairLoops

\* C35: once one loop of a client has ended, and with it the teardown has
\* closed the socket, the other loop ends too
C35_BothTerminate ==
    \A c \in Reqs :
        (rpc[c] = "done" \/ wpc[c] = "done") ~> (rpc[c] = "done" /\ wpc[c] = "done")

\* every client's loops have both ended, one of them on the socket the other
\* one's teardown closed
C35_Witness ==
    \A c \in Reqs : rpc[c] = "done" /\ wpc[c] = "done" /\ ~Alive(c) /\ closes[c] = 1

\* ------------------------------------------------- the store, again
\* a step of NewOTP, of Retention's sweep, or of the VerifyOTP call of a
\* request other than r accesses the RetentionMap
OtherAccess(r) ==
    \/ nextKey' # nextKey
    \/ nextTick' # nextTick
    \/ \E q \in Reqs \ {r} :
          \/ reqs[q].pc = "idle" /\ reqs'[q].pc # "idle" /\ reqs'[q].token # "missing"
          \/ reqs[q].pc = "delete" /\ reqs'[q].pc # "delete"

\* C36: NewOTP, VerifyOTP and the sweep exclude one another on the store:
\* between the lookup and the delete of one VerifyOTP call no step of NewOTP,
\* of the sweep or of another VerifyOTP call accesses the store
C36_StoreExclusion ==
    [][\A r \in Reqs : reqs[r].pc = "delete" => ~OtherAccess(r)]_vars

\* the calls that take the lock of the registry
NextLock ==
    \/ \E c \in Reqs : addClientLock(c)
    \/ \E c \in Reqs : addClientUnlock(c)
    \/ \E p \in Mutators : removeClientLock(p)
    \/ \E p \in Mutators : removeClientUnlock(p)
    \/ \E b \in Broadcasters : BroadcastRLock(b)
    \/ \E b \in Broadcasters : \E c \in Reqs : BroadcastVisit(b, c)
    \/ \E b \in Broadcasters : BroadcastRUnlock(b)

SpecLock == Init /\ [][NextLock]_vars

\* ------------------------------------------------- the lock
\* the calls of addClient and removeClient that hold the lock
Mutating == {p \in Mutators : lpc[p] = "locked"}

\* the broadcasts inside their loop over the registry
Iterating == {b \in Broadcasters : lpc[<<"broadcast", b>>] = "iterating"}

\* C37: addClient and removeClient never run while a broadcast iterates over
\* the registry, nor two of them at the same time, and the registry a
\* broadcast iterates over does not change under it
C37_RegistryLocking ==
    [][/\ Cardinality(Mutating) <= 1
       /\ Mutating # {} => Iterating = {}
       /\ (\E b \in Iterating : lpc'[<<"broadcast", b>>] = "iterating") =>
             Clients' = Clients]_vars

\* two broadcasts iterate over the registry at the same time, one having
\* visited a client the other has still to visit
C37_Witness ==
    /\ Cardinality(Iterating) >= 2
    /\ \E b1, b2 \in Iterating : todo[b1] # todo[b2]
    /\ Clients # {}

\* ------------------------------------------------- failures on the socket
\* C38: a read error ends readMessages and a failed ping write ends
\* writeMessages, at once and for good; either way the teardown has run: the
\* socket is closed and the client is out of the registry
C38_FailuresEnd ==
    [][\A c \in Reqs :
          /\ (rpc[c] = "read" /\ rpc'[c] # "read") =>
                rpc'[c] = "done" /\ c \notin Clients' /\ conn'[c] = "closed"
          /\ (wpc[c] = "ping" /\ wpc'[c] # "ping") =>
                \/ wpc'[c] = "select" /\ conn'[c] = "open"
                \/ wpc'[c] = "done" /\ c \notin Clients' /\ conn'[c] = "closed"
          /\ rpc[c] = "done" => rpc'[c] = "done"
          /\ wpc[c] = "done" => wpc'[c] = "done"]_vars

\* one client was ended by a read error, its writer still at its select;
\* another by a failed ping, its reader still reading
C38_Witness ==
    \E c, d \in Reqs :
        /\ rpc[c] = "done" /\ wpc[c] = "select" /\ c \notin Clients
        /\ wpc[d] = "done" /\ rpc[d] = "read" /\ d \notin Clients

\* the store with its sweep alone: passwords are issued, the ticker fires, the
\* context is cancelled; a select with a ready case does not wait for ever
NextSweep ==
    \/ \E u \in ClockUsers : NewOTP(u)
    \/ RetentionTick
    \/ CancelRetention
    \/ RetentionReturn
    \/ Advance

SpecSweep == Init /\ [][NextSweep]_vars /\ WF_vars(RetentionReturn)

\* ------------------------------------------------- the sweep
\* the age of the stored password k
Age(k) == now - rm[k].Created

\* C39: a tick of the sweep removes from the store exactly the passwords older
\* than the retention period; once its context is cancelled Retention returns,
\* and after that nothing is removed any more
C39_Sweep ==
    /\ [][nextTick' # nextTick =>
             DOMAIN rm' = {k \in DOMAIN rm : Age(k) <= RetentionPeriod}]_vars
    /\ [][ctxDone => (ctxDone' /\ nextTick' = nextTick /\ DOMAIN rm \subseteq DOMAIN rm')]_vars
    /\ ctxCancel ~> ctxDone

\* a tick removed the older of two passwords and left the younger, which has
\* since outlived the retention period in the store of the ended sweep
C39_Witness ==
    /\ nextKey >= 2
    /\ 1 \notin DOMAIN rm
    /\ 2 \in DOMAIN rm
    /\ ctxDone
    /\ Age(2) > RetentionPeriod

\* ------------------------------------------------------- the keepalive
\* one client, its peer answering each ping in time, late or never
NextPing ==
    \/ SetReadDeadline
    \/ NewTicker
    \/ Elapse
    \/ WritePing
    \/ PingFails
    \/ pongHandler
    \/ ReadTimeout

SpecPing == Init /\ [][NextPing]_vars

\* C40: the ping interval is nine tenths of the pong wait and so shorter; a
\* received pong sets the read deadline to the present time plus the pong wait;
\* and a read that ends by its deadline has a ping behind it that the peer
\* left unanswered
C40_Keepalive ==
    /\ [](pingInterval * 10 = pongWait * 9 /\ pingInterval < pongWait)
    /\ [][(pinged /\ ~pinged') => readDeadline' = clock + pongWait]_vars
    /\ [](ended = "deadline" => pinged)

\* two pings were answered and the read is still going after more than two
\* pong waits
C40_Witness ==
    /\ ended = "no"
    /\ clock > 2 * pongWait
    /\ ticker > 2 * pingInterval
    /\ ~pinged
    /\ readDeadline > clock

====
